---------------------------- MODULE Spec2Model ----------------------------
(***************************************************************************)
(* A model of ethsign (src/ethsign.go): the three subcommands              *)
(* list-accounts, transaction and message, each invocation a process that  *)
(* walks through its Action closure.  The calls a run makes into the       *)
(* go-ethereum accounts library, the file system and the terminal are      *)
(* recorded in `calls'; what it prints is recorded in `stdout'/`stderr';   *)
(* the cli exit error it returns is recorded in `exit'.                    *)
(*                                                                         *)
(* Strings that the program parses are tuples of one-character strings     *)
(* (<<>> is the empty string); byte strings are tuples of 0..255.          *)
(***************************************************************************)
EXTENDS Integers, Sequences, FiniteSets, TLC

(***************************************************************************)
(* Bounds of the model.                                                    *)
(***************************************************************************)
\* the largest number of wallets the account manager returns
MaxWallets == 2

(***************************************************************************)
(* Program constants.                                                      *)
(***************************************************************************)
\* for j := 0; j <= 3; j++
LastPath == 3
\* signature[64] += 27
VIndex == 64
VOffset == 27
\* cli.NewExitError(..., 1)
ExitStatus == 1

Commands == {"list-accounts", "transaction", "message"}

\* a nil *accounts.Account; the err of a failed Derive
Nil == <<>>
DeriveErr == <<"err">>

(***************************************************************************)
(* Strings and bytes.                                                      *)
(***************************************************************************)
HexDigits ==
    <<"0", "1", "2", "3", "4", "5", "6", "7", "8", "9",
      "a", "b", "c", "d", "e", "f">>

\* the value of one hexadecimal digit (either case)
HexDigitVal(ch) ==
    CASE ch = "A" -> 10 [] ch = "B" -> 11 [] ch = "C" -> 12
      [] ch = "D" -> 13 [] ch = "E" -> 14 [] ch = "F" -> 15
      [] OTHER -> (CHOOSE k \in 1..16 : HexDigits[k] = ch) - 1

\* strings.HasPrefix(s, "0x")
Has0xPrefix(s) ==
    Len(s) >= 2 /\ s[1] = "0" /\ s[2] = "x"

Drop(s, n) == SubSeq(s, n + 1, Len(s))

RECURSIVE HexToBytes(_)
\* an even-length string of hex digits, two digits a byte
HexToBytes(s) ==
    IF Len(s) = 0 THEN <<>>
    ELSE <<16 * HexDigitVal(s[1]) + HexDigitVal(s[2])>> \o HexToBytes(Drop(s, 2))

\* common.FromHex: optional 0x prefix, an odd length is padded with a 0
FromHex(s) ==
    LET t == IF Has0xPrefix(s) THEN Drop(s, 2) ELSE s
        u == IF Len(t) % 2 = 1 THEN <<"0">> \o t ELSE t
    IN  HexToBytes(u)

\* hexutil.MustDecode on the well-formed (0x-prefixed, even) inputs of the model
MustDecode(s) == HexToBytes(Drop(s, 2))

RECURSIVE StripZeros(_)
StripZeros(b) ==
    IF Len(b) > 0 /\ b[1] = 0 THEN StripZeros(Drop(b, 1)) ELSE b

RECURSIVE Zeros(_)
Zeros(n) == IF n <= 0 THEN <<>> ELSE <<0>> \o Zeros(n - 1)

\* common.BytesToAddress: the last 20 bytes, left-padded with zeros
BytesToAddress(b) ==
    IF Len(b) > 20
    THEN Drop(b, Len(b) - 20)
    ELSE Zeros(20 - Len(b)) \o b

\* common.HexToAddress
HexToAddress(s) == BytesToAddress(FromHex(s))

RECURSIVE ParseDec(_)
ParseDec(s) ==
    IF Len(s) = 0 THEN 0
    ELSE 10 * ParseDec(SubSeq(s, 1, Len(s) - 1)) + HexDigitVal(s[Len(s)])

RECURSIVE ParseHex(_)
ParseHex(s) ==
    IF Len(s) = 0 THEN 0
    ELSE 16 * ParseHex(SubSeq(s, 1, Len(s) - 1)) + HexDigitVal(s[Len(s)])

\* math.MustParseUint64 / math.MustParseBig256: decimal, or hex with 0x
MustParse(s) ==
    IF Has0xPrefix(s) THEN ParseHex(Drop(s, 2)) ELSE ParseDec(s)

RECURSIVE IntToBytes(_)
\* the big-endian bytes of a number, without leading zeros
IntToBytes(n) ==
    IF n = 0 THEN <<>> ELSE IntToBytes(n \div 256) \o <<n % 256>>

RECURSIVE HexChars(_)
HexChars(b) ==
    IF Len(b) = 0 THEN <<>>
    ELSE <<HexDigits[(b[1] \div 16) + 1], HexDigits[(b[1] % 16) + 1]>>
             \o HexChars(Drop(b, 1))

\* hexutil.Encode
HexEncode(b) == <<"0", "x">> \o HexChars(b)

(***************************************************************************)
(* RLP (rlp.EncodeToBytes).                                                *)
(***************************************************************************)
\* the header of a payload of `size' bytes: short form up to 55 bytes
RlpHeader(size, short, long) ==
    IF size <= 55 THEN <<short + size>>
    ELSE LET sz == IntToBytes(size) IN <<long + Len(sz)>> \o sz

\* a byte string
RlpString(b) ==
    IF Len(b) = 1 /\ b[1] < 128 THEN b
    ELSE RlpHeader(Len(b), 128, 183) \o b

RECURSIVE Flatten(_)
Flatten(ss) == IF Len(ss) = 0 THEN <<>> ELSE ss[1] \o Flatten(Drop(ss, 1))

\* a list of already encoded items
RlpList(items) ==
    LET payload == Flatten(items)
    IN  RlpHeader(Len(payload), 192, 247) \o payload

(***************************************************************************)
(* The environment: wallets, flag values, files, the terminal, signers.    *)
(***************************************************************************)
\* the address every --from of the model names, and other addresses
AddrA == HexToAddress(<<"0", "x", "0", "a">>)
AddrB == HexToAddress(<<"0", "x", "0", "b">>)
PathAddr(j) == BytesToAddress(<<16 + j>>)

\* a keystore wallet lists its accounts
KeystoreWallets ==
    {[scheme |-> "keystore", accts |-> a] :
        a \in {<<AddrA>>, <<AddrB>>, <<AddrB, AddrA>>}}

\* a Ledger answers Derive for path j (entry j + 1) with an account or an
\* error; AddrA lives at path h (if any), the derivation of path f fails
LedgerTable(h, f) ==
    [k \in 1..(LastPath + 1) |->
        IF k - 1 = f THEN DeriveErr
        ELSE IF k - 1 = h THEN AddrA ELSE PathAddr(k - 1)]

LedgerWallets ==
    {[scheme |-> "ledger", accts |-> LedgerTable(h, f)] :
        h \in {-1, 0, 2}, f \in {-1, 1, 3}}

\* a Trezor holds accounts too
TrezorWallets ==
    {[scheme |-> "trezor", accts |-> a] : a \in {<<AddrA>>, <<AddrB>>}}

WalletTypes == KeystoreWallets \cup LedgerWallets \cup TrezorWallets

\* what manager.Wallets() may return
WalletLists == UNION {[1..n -> WalletTypes] : n \in 0..MaxWallets}

Empty == <<>>

NoFlags ==
    [nonce |-> Empty, value |-> Empty, gasPrice |-> Empty, gasLimit |-> Empty,
     chainId |-> Empty, from |-> Empty, to |-> Empty, data |-> Empty,
     passphraseFile |-> Empty, create |-> FALSE]

\* the command lines of `transaction'
TxFlags ==
    [nonce : {Empty, <<"3">>},
     value : {Empty, <<"0">>},
     gasPrice : {Empty, <<"0", "x", "1", "f">>},
     gasLimit : {Empty, <<"2", "1", "0", "0", "0">>},
     chainId : {Empty, <<"1">>},
     from : {Empty, <<"0", "x", "0", "a">>},
     to : {Empty, <<"0", "x", "0", "b">>},
     data : {Empty, <<"0", "x", "c", "0", "d", "e">>},
     passphraseFile : {Empty, <<"p", "w">>},
     create : BOOLEAN]

\* the command lines of `message'
MsgFlags ==
    {[NoFlags EXCEPT !.from = f, !.data = d, !.passphraseFile = pf] :
        f \in {Empty, <<"0", "x", "0", "a">>},
        d \in {Empty, <<"c", "0", "d", "e">>, <<"0", "x", "7", "f">>},
        pf \in {Empty, <<"p", "w">>}}

\* c.String(name)
CString(c, name) ==
    CASE name = "nonce" -> c.nonce
      [] name = "value" -> c.value
      [] name = "gas-price" -> c.gasPrice
      [] name = "gas-limit" -> c.gasLimit
      [] name = "chain-id" -> c.chainId
      [] name = "from" -> c.from
      [] name = "to" -> c.to
      [] name = "data" -> c.data
      [] name = "passphrase-file" -> c.passphraseFile

\* what ioutil.ReadFile may return for the passphrase file
FileContents ==
    {Empty, <<"s">>, <<"s", "\n">>, <<"s", "\n", "\n">>, <<"\n">>}

\* what terminal.ReadPassword may return
TypedPasswords == {Empty, <<"s">>}

\* mutant: every trailing newline is removed (strings.TrimRight)
RECURSIVE TrimSuffix_All(_)
TrimSuffix_All(s) ==
    IF Len(s) > 0 /\ s[Len(s)] = "\n"
    THEN TrimSuffix_All(SubSeq(s, 1, Len(s) - 1))
    ELSE s

\* strings.TrimSuffix(s, "\n")
TrimSuffix(s) ==
    IF Len(s) > 0 /\ s[Len(s)] = "\n" THEN SubSeq(s, 1, Len(s) - 1) ELSE s

RECURSIVE Fill(_, _)
Fill(b, n) == IF n <= 0 THEN <<>> ELSE <<b>> \o Fill(b, n - 1)

\* the signatures a signer may return: R || S || V, with V 0 or 1
\* (crypto.Sign, used by the keystore)
Signatures ==
    {Fill(r, 32) \o Fill(s, 32) \o <<v>> :
        r \in {17}, s \in {250}, v \in {0, 1}}

\* return nil; and the value of `exit' before the Action has returned
NoError == [status |-> 0, msg |-> ""]
Running == [status |-> 0 - 1, msg |-> "running"]

\* cli.NewExitError(msg, 1)
NewExitError(msg) == [status |-> ExitStatus, msg |-> msg]

\* fmt.Sprintf("m/44'/60'/0'/%d", j)
PathStr(j) == "m/44'/60'/0'/" \o HexDigits[j + 1]

(***************************************************************************)
(* The state.                                                              *)
(***************************************************************************)
VARIABLES
    pc,              \* where each command's Action closure is
    flags,           \* c: the cli context of each command
    devices,         \* {the wallets present}, {} until first enumerated
    wallets,         \* wallets := getWallets(...)
    x,               \* the index in `wallets' of the range loop's x
    j,               \* the path loop's j
    wallet,          \* var wallet accounts.Wallet (an index of wallets, 0 = nil)
    acct,            \* var acct *accounts.Account (the address, or Nil)
    needPassphrase,
    passphrase,
    calls,           \* the calls made into the libraries, in order
    stdout,          \* the lines printed to standard output
    stderr,          \* what was written to standard error
    exit             \* the error returned by the Action, Running until then

vars ==
    <<pc, flags, devices, wallets, x, j, wallet, acct, needPassphrase,
      passphrase, calls, stdout, stderr, exit>>

\* f with the value of command p replaced
Set(f, p, v) == [f EXCEPT ![p] = v]

\* return cli.NewExitError(msg, 1)
Return(p, err) ==
    /\ pc' = Set(pc, p, "done")
    /\ exit' = Set(exit, p, err)

Goto(p, l) ==
    /\ pc' = Set(pc, p, l)
    /\ UNCHANGED exit

\* a call into a library, with its arguments and, last, what it returned:
\*   <<"Wallets">>, <<"Open", wallet, passphrase>>,
\*   <<"Derive", wallet, path, pin, account or DeriveErr>>,
\*   <<"ReadFile", name, ok, contents>>, <<"ReadPassword", ok, bytes>>,
\*   <<"SignTxWithPassphrase", wallet, account, passphrase, tx, chainID, signed or Nil>>,
\*   <<"SignHashWithPassphrase", wallet, account, passphrase, hash, signature or Nil>>
Call(p, call) == calls' = Set(calls, p, Append(calls[p], call))

(***************************************************************************)
(* getWallets, lines 38-58: the wallets of the keystore, the Ledger hub    *)
(* and the Trezor hub, as the account manager returns them.  What is       *)
(* plugged in is decided when it is first looked at and stays.             *)
(***************************************************************************)
GetWallets(p) ==
    \E ws \in (IF devices = {} THEN WalletLists ELSE devices) :
        /\ devices' = {ws}
        /\ wallets' = Set(wallets, p, ws)
        /\ Call(p, <<"Wallets">>)

(***************************************************************************)
(* transaction, lines 155-273.                                             *)
(***************************************************************************)
\* mutant: --from is checked first
TxRequireds_FromFirst ==
    <<"from", "nonce", "value", "gas-price", "gas-limit", "chain-id">>

TxRequireds ==
    <<"nonce", "value", "gas-price", "gas-limit", "chain-id", "from">>

\* lines 160-164: the first required flag that is empty, 0 when none is
TxFirstMissing(c) ==
    IF \E k \in 1..Len(TxRequireds) : CString(c, TxRequireds[k]) = Empty
    THEN CHOOSE k \in 1..Len(TxRequireds) :
            /\ CString(c, TxRequireds[k]) = Empty
            /\ \A l \in 1..(k - 1) : CString(c, TxRequireds[l]) # Empty
    ELSE 0

\* lines 156-164
TxRequired(p) ==
    /\ pc[p] = "requireds"
    /\ p = "transaction"
    /\ LET k == TxFirstMissing(flags[p])
       IN  IF k # 0
           THEN Return(p, NewExitError(
                    "ethsign: missing required parameter --" \o TxRequireds[k]))
           ELSE Goto(p, "args")
    /\ UNCHANGED <<flags, devices, wallets, x, j, wallet, acct, needPassphrase,
                   passphrase, calls, stdout, stderr>>

\* mutant: --to together with --create is let through
TxArgsError_BothAllowed(c) ==
    IF c.to = Empty /\ ~c.create
    THEN "ethsign: need exactly one of --to or --create"
    ELSE IF c.create /\ c.data = Empty
    THEN "ethsign: need --data when doing --create"
    ELSE ""

\* lines 166-174: the error of the --to / --create / --data checks, "" if none
TxArgsError(c) ==
    IF (c.to = Empty /\ ~c.create) \/ (c.to # Empty /\ c.create)
    THEN "ethsign: need exactly one of --to or --create"
    ELSE IF c.create /\ c.data = Empty
    THEN "ethsign: need --data when doing --create"
    ELSE ""

\* lines 166-188
TxArgs(p) ==
    /\ pc[p] = "args"
    /\ p = "transaction"
    /\ IF TxArgsError(flags[p]) # ""
       THEN Return(p, NewExitError(TxArgsError(flags[p])))
       ELSE Goto(p, "getWallets")
    /\ UNCHANGED <<flags, devices, wallets, x, j, wallet, acct, needPassphrase,
                   passphrase, calls, stdout, stderr>>

\* lines 190-195
TxGetWallets(p) ==
    /\ pc[p] = "getWallets"
    /\ p = "transaction"
    /\ GetWallets(p)
    /\ wallet' = Set(wallet, p, 0)
    /\ acct' = Set(acct, p, Nil)
    /\ needPassphrase' = Set(needPassphrase, p, TRUE)
    /\ x' = Set(x, p, 1)
    /\ Goto(p, "scan")
    /\ UNCHANGED <<flags, j, passphrase, stdout, stderr>>

\* lines 200-206: the first account of a keystore wallet equal to from, 0 if none
TxKeystoreFind(accts, from) ==
    IF \E k \in 1..Len(accts) : accts[k] = from
    THEN CHOOSE k \in 1..Len(accts) :
            accts[k] = from /\ \A l \in 1..(k - 1) : accts[l] # from
    ELSE 0

\* lines 198-208: the head of the range loop, the keystore branch, and the
\* Open of the ledger branch
TxScan(p) ==
    /\ pc[p] = "scan"
    /\ p = "transaction"
    /\ LET from == HexToAddress(flags[p].from) IN
       IF x[p] > Len(wallets[p])
       THEN /\ Goto(p, "acct")
            /\ UNCHANGED <<x, j, wallet, acct, calls>>
       ELSE LET w == wallets[p][x[p]] IN
            IF w.scheme = "keystore"
            THEN LET k == TxKeystoreFind(w.accts, from) IN
                 IF k # 0
                 THEN /\ wallet' = Set(wallet, p, x[p])
                      /\ acct' = Set(acct, p, w.accts[k])
                      /\ Goto(p, "acct")
                      /\ UNCHANGED <<x, j, calls>>
                 ELSE /\ x' = Set(x, p, x[p] + 1)
                      /\ Goto(p, "scan")
                      /\ UNCHANGED <<j, wallet, acct, calls>>
            ELSE IF w.scheme = "ledger"
            THEN /\ Call(p, <<"Open", x[p], "">>)
                 /\ j' = Set(j, p, 0)
                 /\ Goto(p, "derive")
                 /\ UNCHANGED <<x, wallet, acct>>
            ELSE /\ x' = Set(x, p, x[p] + 1)
                 /\ Goto(p, "scan")
                 /\ UNCHANGED <<j, wallet, acct, calls>>
    /\ UNCHANGED <<flags, devices, wallets, needPassphrase, passphrase,
                   stdout, stderr>>

\* mutant: the loop runs while j < 3
TxPathsDone_Early(n) == n >= LastPath

\* line 209: the path loop's condition j <= 3 no longer holds
TxPathsDone(n) == n > LastPath

\* mutant: the error of Derive is not looked at
TxDeriveFailed_Ignored(y) == FALSE

\* line 213: err != nil
TxDeriveFailed(y) == y = DeriveErr

\* line 216: y.Address == from
TxMatches(y, from) == y = from

\* lines 209-223: one turn of the path loop
TxDerive(p) ==
    /\ pc[p] = "derive"
    /\ p = "transaction"
    /\ LET from == HexToAddress(flags[p].from) IN
       IF TxPathsDone(j[p])
       THEN /\ x' = Set(x, p, x[p] + 1)
            /\ Goto(p, "scan")
            /\ UNCHANGED <<j, wallet, acct, needPassphrase, calls>>
       ELSE LET y == wallets[p][x[p]].accts[j[p] + 1] IN
            /\ Call(p, <<"Derive", x[p], PathStr(j[p]), TRUE, y>>)
            /\ IF TxDeriveFailed(y)
               THEN /\ Return(p, NewExitError(
                        "ethsign: Ledger needs to be in Ethereum app with browser support off"))
                    /\ UNCHANGED <<x, j, wallet, acct, needPassphrase>>
               ELSE IF TxMatches(y, from)
               THEN /\ wallet' = Set(wallet, p, x[p])
                    /\ acct' = Set(acct, p, y)
                    /\ needPassphrase' = Set(needPassphrase, p, FALSE)
                    /\ Goto(p, "acct")
                    /\ UNCHANGED <<x, j>>
               ELSE /\ j' = Set(j, p, j[p] + 1)
                    /\ Goto(p, "derive")
                    /\ UNCHANGED <<x, wallet, acct, needPassphrase>>
    /\ UNCHANGED <<flags, devices, wallets, passphrase, stdout, stderr>>

\* lines 227-232
TxAcct(p) ==
    /\ pc[p] = "acct"
    /\ p = "transaction"
    /\ IF acct[p] = Nil
       THEN Return(p, NewExitError("ethsign: account not found"))
       ELSE Goto(p, "passphrase")
    /\ UNCHANGED <<flags, devices, wallets, x, j, wallet, acct, needPassphrase,
                   passphrase, calls, stdout, stderr>>

\* lines 234-255
TxPassphrase(p) ==
    /\ pc[p] = "passphrase"
    /\ p = "transaction"
    /\ IF needPassphrase[p]
       THEN IF flags[p].passphraseFile # Empty
            THEN \E ok \in BOOLEAN, passphraseFile \in FileContents :
                    /\ Call(p, <<"ReadFile", flags[p].passphraseFile, ok,
                                 passphraseFile>>)
                    /\ UNCHANGED stderr
                    /\ IF ~ok
                       THEN /\ passphraseFile = Empty
                            /\ Return(p, NewExitError(
                                   "ethsign: failed to read passphrase file"))
                            /\ UNCHANGED passphrase
                       ELSE /\ passphrase' =
                                   Set(passphrase, p, TrimSuffix(passphraseFile))
                            /\ Goto(p, "sign")
            ELSE \E ok \in BOOLEAN, bytes \in TypedPasswords :
                    /\ stderr' = Set(stderr, p, Append(stderr[p],
                           "Ethereum account passphrase (not echoed): "))
                    /\ Call(p, <<"ReadPassword", ok, bytes>>)
                    /\ IF ~ok
                       THEN /\ bytes = Empty
                            /\ Return(p, NewExitError(
                                   "ethsign: failed to read passphrase"))
                            /\ UNCHANGED passphrase
                       ELSE /\ passphrase' = Set(passphrase, p, bytes)
                            /\ Goto(p, "sign")
       ELSE /\ stderr' = Set(stderr, p, Append(stderr[p],
                   "Waiting for hardware wallet confirmation...\n"))
            /\ Goto(p, "sign")
            /\ UNCHANGED <<passphrase, calls>>
    /\ UNCHANGED <<flags, devices, wallets, x, j, wallet, acct, needPassphrase,
                   stdout>>

\* RLP of a number: its big-endian bytes as a string
RlpInt(n) == RlpString(IntToBytes(n))

\* lines 176-188 and 257-262: the transaction built from the flags
TxBuild(c) ==
    [nonce |-> MustParse(c.nonce),
     gasPrice |-> MustParse(c.gasPrice),
     gasLimit |-> MustParse(c.gasLimit),
     to |-> IF c.create THEN Nil ELSE HexToAddress(c.to),
     value |-> MustParse(c.value),
     data |-> MustDecode(IF c.data = Empty THEN <<"0", "x">> ELSE c.data)]

\* tx.WithSignature under the EIP-155 signer of chainID
WithSignature(tx, sig, chainID) ==
    [tx |-> tx,
     v |-> sig[VIndex + 1] + 35 + 2 * chainID,
     r |-> SubSeq(sig, 1, 32),
     s |-> SubSeq(sig, 33, 64)]

\* rlp.EncodeToBytes of a signed transaction
RlpTx(signed) ==
    RlpList(<<RlpInt(signed.tx.nonce), RlpInt(signed.tx.gasPrice),
              RlpInt(signed.tx.gasLimit), RlpString(signed.tx.to),
              RlpInt(signed.tx.value), RlpString(signed.tx.data),
              RlpInt(signed.v), RlpString(StripZeros(signed.r)),
              RlpString(StripZeros(signed.s))>>)

\* lines 269-270: the line printed for a signed transaction
TxOutput(signed) == HexEncode(RlpTx(signed))

\* mutant: the first wallet signs, whichever was located
TxSigner_First(p) == 1

\* the wallet handed to the sign call (line 264)
TxSigner(p) == wallet[p]

\* lines 257-272
TxSign(p) ==
    /\ pc[p] = "sign"
    /\ p = "transaction"
    /\ LET tx == TxBuild(flags[p])
           chainID == MustParse(flags[p].chainId)
       IN  \E ok \in BOOLEAN, sig \in Signatures :
             LET signed == IF ok THEN WithSignature(tx, sig, chainID) ELSE Nil IN
             /\ Call(p, <<"SignTxWithPassphrase", TxSigner(p), acct[p],
                          passphrase[p], tx, chainID, signed>>)
             /\ IF ~ok
                THEN /\ sig = CHOOSE g \in Signatures : TRUE
                     /\ Return(p, NewExitError("ethsign: failed to sign tx"))
                     /\ UNCHANGED stdout
                ELSE /\ stdout' = Set(stdout, p, Append(stdout[p], TxOutput(signed)))
                     /\ Return(p, NoError)
    /\ UNCHANGED <<flags, devices, wallets, x, j, wallet, acct, needPassphrase,
                   passphrase, stderr>>

(***************************************************************************)
(* message, lines 299-398.                                                 *)
(***************************************************************************)
MsgRequireds == <<"from", "data">>

\* lines 304-308: the first required flag that is empty, 0 when none is
MsgFirstMissing(c) ==
    IF CString(c, MsgRequireds[1]) = Empty THEN 1
    ELSE IF CString(c, MsgRequireds[2]) = Empty THEN 2
    ELSE 0

\* lines 300-316
MsgRequired(p) ==
    /\ pc[p] = "requireds"
    /\ p = "message"
    /\ LET k == MsgFirstMissing(flags[p])
       IN  IF k # 0
           THEN Return(p, NewExitError(
                    "ethsign: missing required parameter --" \o MsgRequireds[k]))
           ELSE Goto(p, "getWallets")
    /\ UNCHANGED <<flags, devices, wallets, x, j, wallet, acct, needPassphrase,
                   passphrase, calls, stdout, stderr>>

\* lines 318-323
MsgGetWallets(p) ==
    /\ pc[p] = "getWallets"
    /\ p = "message"
    /\ GetWallets(p)
    /\ wallet' = Set(wallet, p, 0)
    /\ acct' = Set(acct, p, Nil)
    /\ needPassphrase' = Set(needPassphrase, p, TRUE)
    /\ x' = Set(x, p, 1)
    /\ Goto(p, "scan")
    /\ UNCHANGED <<flags, j, passphrase, stdout, stderr>>

\* lines 328-334: the first account of a keystore wallet equal to from, 0 if none
MsgKeystoreFind(accts, from) ==
    IF \E k \in 1..Len(accts) : accts[k] = from
    THEN CHOOSE k \in 1..Len(accts) :
            accts[k] = from /\ \A l \in 1..(k - 1) : accts[l] # from
    ELSE 0

\* lines 326-336: the head of the range loop, the keystore branch, and the
\* Open of the ledger branch
MsgScan(p) ==
    /\ pc[p] = "scan"
    /\ p = "message"
    /\ LET from == HexToAddress(flags[p].from) IN
       IF x[p] > Len(wallets[p])
       THEN /\ Goto(p, "acct")
            /\ UNCHANGED <<x, j, wallet, acct, calls>>
       ELSE LET w == wallets[p][x[p]] IN
            IF w.scheme = "keystore"
            THEN LET k == MsgKeystoreFind(w.accts, from) IN
                 IF k # 0
                 THEN /\ wallet' = Set(wallet, p, x[p])
                      /\ acct' = Set(acct, p, w.accts[k])
                      /\ Goto(p, "acct")
                      /\ UNCHANGED <<x, j, calls>>
                 ELSE /\ x' = Set(x, p, x[p] + 1)
                      /\ Goto(p, "scan")
                      /\ UNCHANGED <<j, wallet, acct, calls>>
            ELSE IF w.scheme = "ledger"
            THEN /\ Call(p, <<"Open", x[p], "">>)
                 /\ j' = Set(j, p, 0)
                 /\ Goto(p, "derive")
                 /\ UNCHANGED <<x, wallet, acct>>
            ELSE /\ x' = Set(x, p, x[p] + 1)
                 /\ Goto(p, "scan")
                 /\ UNCHANGED <<j, wallet, acct, calls>>
    /\ UNCHANGED <<flags, devices, wallets, needPassphrase, passphrase,
                   stdout, stderr>>

\* line 337: the path loop's condition j <= 3 no longer holds
MsgPathsDone(n) == n > LastPath

\* mutant: the error of Derive is not looked at
MsgDeriveFailed_Ignored(y) == FALSE

\* line 341: err != nil
MsgDeriveFailed(y) == y = DeriveErr

\* line 344: y.Address == from
MsgMatches(y, from) == y = from

\* lines 337-351: one turn of the path loop
MsgDerive(p) ==
    /\ pc[p] = "derive"
    /\ p = "message"
    /\ LET from == HexToAddress(flags[p].from) IN
       IF MsgPathsDone(j[p])
       THEN /\ x' = Set(x, p, x[p] + 1)
            /\ Goto(p, "scan")
            /\ UNCHANGED <<j, wallet, acct, needPassphrase, calls>>
       ELSE LET y == wallets[p][x[p]].accts[j[p] + 1] IN
            /\ Call(p, <<"Derive", x[p], PathStr(j[p]), TRUE, y>>)
            /\ IF MsgDeriveFailed(y)
               THEN /\ Return(p, NewExitError(
                        "ethsign: Ledger needs to be in Ethereum app with browser support off"))
                    /\ UNCHANGED <<x, j, wallet, acct, needPassphrase>>
               ELSE IF MsgMatches(y, from)
               THEN /\ wallet' = Set(wallet, p, x[p])
                    /\ acct' = Set(acct, p, y)
                    /\ needPassphrase' = Set(needPassphrase, p, FALSE)
                    /\ Goto(p, "acct")
                    /\ UNCHANGED <<x, j>>
               ELSE /\ j' = Set(j, p, j[p] + 1)
                    /\ Goto(p, "derive")
                    /\ UNCHANGED <<x, wallet, acct, needPassphrase>>
    /\ UNCHANGED <<flags, devices, wallets, passphrase, stdout, stderr>>

\* lines 355-360
MsgAcct(p) ==
    /\ pc[p] = "acct"
    /\ p = "message"
    /\ IF acct[p] = Nil
       THEN Return(p, NewExitError("ethsign: account not found"))
       ELSE Goto(p, "passphrase")
    /\ UNCHANGED <<flags, devices, wallets, x, j, wallet, acct, needPassphrase,
                   passphrase, calls, stdout, stderr>>

\* lines 362-383
MsgPassphrase(p) ==
    /\ pc[p] = "passphrase"
    /\ p = "message"
    /\ IF needPassphrase[p]
       THEN IF flags[p].passphraseFile # Empty
            THEN \E ok \in BOOLEAN, passphraseFile \in FileContents :
                    /\ Call(p, <<"ReadFile", flags[p].passphraseFile, ok,
                                 passphraseFile>>)
                    /\ UNCHANGED stderr
                    /\ IF ~ok
                       THEN /\ passphraseFile = Empty
                            /\ Return(p, NewExitError(
                                   "ethsign: failed to read passphrase file"))
                            /\ UNCHANGED passphrase
                       ELSE /\ passphrase' =
                                   Set(passphrase, p, TrimSuffix(passphraseFile))
                            /\ Goto(p, "sign")
            ELSE \E ok \in BOOLEAN, bytes \in TypedPasswords :
                    /\ stderr' = Set(stderr, p, Append(stderr[p],
                           "Ethereum account passphrase (not echoed): "))
                    /\ Call(p, <<"ReadPassword", ok, bytes>>)
                    /\ IF ~ok
                       THEN /\ bytes = Empty
                            /\ Return(p, NewExitError(
                                   "ethsign: failed to read passphrase"))
                            /\ UNCHANGED passphrase
                       ELSE /\ passphrase' = Set(passphrase, p, bytes)
                            /\ Goto(p, "sign")
       ELSE /\ stderr' = Set(stderr, p, Append(stderr[p],
                   "Waiting for hardware wallet confirmation...\n"))
            /\ Goto(p, "sign")
            /\ UNCHANGED <<passphrase, calls>>
    /\ UNCHANGED <<flags, devices, wallets, x, j, wallet, acct, needPassphrase,
                   stdout>>

\* lines 312-316: the bytes of --data
MsgData(c) ==
    MustDecode(IF Has0xPrefix(c.data) THEN c.data ELSE <<"0", "x">> \o c.data)

\* lines 33-36: the hash of a message, the hash function left uninterpreted
signHash(data) ==
    <<"Keccak256", <<25>>, "Ethereum Signed Message:\n", Len(data), data>>

\* mutant: 27 is added one byte too early
AddV_WrongIndex(signature) ==
    [signature EXCEPT ![VIndex] = (signature[VIndex] + VOffset) % 256]

\* line 391: signature[64] += 27, on a byte
AddV(signature) ==
    [signature EXCEPT ![VIndex + 1] = (signature[VIndex + 1] + VOffset) % 256]

\* mutant: the signature is RLP-encoded before it is printed (lines 394-395)
MsgOutput_Rlp(signature) == HexEncode(RlpString(signature))

\* line 393: the line printed for a signature
MsgOutput(signature) == HexEncode(signature)

\* the wallet handed to the sign call (line 385)
MsgSigner(p) == wallet[p]

\* lines 385-397
MsgSign(p) ==
    /\ pc[p] = "sign"
    /\ p = "message"
    /\ \E ok \in BOOLEAN, sig \in Signatures :
         LET signature == IF ok THEN sig ELSE Nil IN
         /\ Call(p, <<"SignHashWithPassphrase", MsgSigner(p), acct[p],
                      passphrase[p], signHash(MsgData(flags[p])), signature>>)
         /\ IF ~ok
            THEN /\ sig = CHOOSE g \in Signatures : TRUE
                 /\ Return(p, NewExitError("ethsign: failed to sign tx"))
                 /\ UNCHANGED stdout
            ELSE /\ stdout' = Set(stdout, p,
                        Append(stdout[p], MsgOutput(AddV(signature))))
                 /\ Return(p, NoError)
    /\ UNCHANGED <<flags, devices, wallets, x, j, wallet, acct, needPassphrase,
                   passphrase, stderr>>

(***************************************************************************)
(* list-accounts, lines 77-101.                                            *)
(***************************************************************************)
\* y.Address.Hex(), the checksum's letter case left out
AddressHex(a) == HexEncode(a)

RECURSIVE LsKeystoreLines(_)
\* lines 83-85: one line for each account of a keystore wallet
LsKeystoreLines(accts) ==
    IF Len(accts) = 0 THEN <<>>
    ELSE <<<<AddressHex(accts[1]), " keystore">>>> \o LsKeystoreLines(Drop(accts, 1))

\* line 79
LsGetWallets(p) ==
    /\ pc[p] = "getWallets"
    /\ p = "list-accounts"
    /\ GetWallets(p)
    /\ x' = Set(x, p, 1)
    /\ Goto(p, "scan")
    /\ UNCHANGED <<flags, j, wallet, acct, needPassphrase, passphrase,
                   stdout, stderr>>

\* lines 81-87 and 100
LsScan(p) ==
    /\ pc[p] = "scan"
    /\ p = "list-accounts"
    /\ IF x[p] > Len(wallets[p])
       THEN /\ Return(p, NoError)
            /\ UNCHANGED <<x, j, calls, stdout>>
       ELSE LET w == wallets[p][x[p]] IN
            IF w.scheme = "keystore"
            THEN /\ stdout' = Set(stdout, p, stdout[p] \o LsKeystoreLines(w.accts))
                 /\ x' = Set(x, p, x[p] + 1)
                 /\ Goto(p, "scan")
                 /\ UNCHANGED <<j, calls>>
            ELSE IF w.scheme = "ledger"
            THEN /\ Call(p, <<"Open", x[p], "">>)
                 /\ j' = Set(j, p, 0)
                 /\ Goto(p, "derive")
                 /\ UNCHANGED <<x, stdout>>
            ELSE /\ x' = Set(x, p, x[p] + 1)
                 /\ Goto(p, "scan")
                 /\ UNCHANGED <<j, calls, stdout>>
    /\ UNCHANGED <<flags, devices, wallets, wallet, acct, needPassphrase,
                   passphrase, stderr>>

\* lines 88-96: one turn of the path loop
LsDerive(p) ==
    /\ pc[p] = "derive"
    /\ p = "list-accounts"
    /\ IF j[p] > LastPath
       THEN /\ x' = Set(x, p, x[p] + 1)
            /\ Goto(p, "scan")
            /\ UNCHANGED <<j, calls, stdout>>
       ELSE LET z == wallets[p][x[p]].accts[j[p] + 1] IN
            /\ Call(p, <<"Derive", x[p], PathStr(j[p]), FALSE, z>>)
            /\ IF z = DeriveErr
               THEN /\ Return(p, NewExitError(
                        "ethsign: couldn't use Ledger: needs to be in Ethereum app with browser support off"))
                    /\ UNCHANGED <<x, j, stdout>>
               ELSE /\ stdout' = Set(stdout, p, Append(stdout[p],
                           <<AddressHex(z), " ledger-" \o PathStr(j[p])>>))
                    /\ j' = Set(j, p, j[p] + 1)
                    /\ Goto(p, "derive")
                    /\ UNCHANGED x
    /\ UNCHANGED <<flags, devices, wallets, wallet, acct, needPassphrase,
                   passphrase, stderr>>

(***************************************************************************)
(* The specifications.                                                     *)
(***************************************************************************)
\* the locals of every command before it runs
Fresh ==
    /\ devices = {}
    /\ wallets = [p \in Commands |-> <<>>]
    /\ x = [p \in Commands |-> 0]
    /\ j = [p \in Commands |-> 0]
    /\ wallet = [p \in Commands |-> 0]
    /\ acct = [p \in Commands |-> Nil]
    /\ needPassphrase = [p \in Commands |-> TRUE]
    /\ passphrase = [p \in Commands |-> Empty]
    /\ calls = [p \in Commands |-> <<>>]
    /\ stdout = [p \in Commands |-> <<>>]
    /\ stderr = [p \in Commands |-> <<>>]
    /\ exit = [p \in Commands |-> Running]

\* the command lines of a command
FlagsOf(cmd) ==
    CASE cmd = "transaction" -> TxFlags
      [] cmd = "message" -> MsgFlags
      [] OTHER -> {NoFlags}

\* the first label of a command's Action
Entry(cmd) == IF cmd = "list-accounts" THEN "getWallets" ELSE "requireds"

\* one invocation of ethsign: one command, with any command line
Init ==
    /\ Fresh
    /\ \E cmd \in Commands : \E c \in FlagsOf(cmd) :
          /\ pc = [p \in Commands |-> IF p = cmd THEN Entry(cmd) ELSE "idle"]
          /\ flags = [p \in Commands |-> IF p = cmd THEN c ELSE NoFlags]

Next ==
    \E p \in Commands :
        \/ TxRequired(p) \/ TxArgs(p) \/ TxGetWallets(p) \/ TxScan(p)
        \/ TxDerive(p) \/ TxAcct(p) \/ TxPassphrase(p) \/ TxSign(p)
        \/ MsgRequired(p) \/ MsgGetWallets(p) \/ MsgScan(p)
        \/ MsgDerive(p) \/ MsgAcct(p) \/ MsgPassphrase(p) \/ MsgSign(p)
        \/ LsGetWallets(p) \/ LsScan(p) \/ LsDerive(p)

Spec == Init /\ [][Next]_vars

(***************************************************************************)
(* The account location of `transaction' and of `message' on the same      *)
(* wallets and the same --from: both commands have passed their argument   *)
(* checks; `message' is run once `transaction' has ended its scan.         *)
(***************************************************************************)
TxLocated == pc["transaction"] \in {"passphrase", "done"}
MsgLocated == pc["message"] \in {"passphrase", "done"}

InitEq ==
    /\ Fresh
    /\ pc = [p \in Commands |->
                IF p = "list-accounts" THEN "idle" ELSE "getWallets"]
    /\ \E ct \in TxFlags, cm \in MsgFlags :
          /\ TxFirstMissing(ct) = 0 /\ TxArgsError(ct) = ""
          /\ ~ct.create /\ ct.data = Empty /\ ct.passphraseFile = Empty
          /\ MsgFirstMissing(cm) = 0
          /\ cm.passphraseFile = Empty
          /\ cm.from = ct.from
          /\ flags = [p \in Commands |->
                        CASE p = "transaction" -> ct
                          [] p = "message" -> cm
                          [] OTHER -> NoFlags]

NextEq ==
    \/ \E p \in Commands :
          TxGetWallets(p) \/ TxScan(p) \/ TxDerive(p) \/ TxAcct(p)
    \/ /\ TxLocated
       /\ \E p \in Commands :
             MsgGetWallets(p) \/ MsgScan(p) \/ MsgDerive(p) \/ MsgAcct(p)

SpecEq == InitEq /\ [][NextEq]_vars

(***************************************************************************)
(* Properties.                                                             *)
(***************************************************************************)
Signing == {"transaction", "message"}

SignOps == {"SignTxWithPassphrase", "SignHashWithPassphrase"}
PassOps == {"ReadFile", "ReadPassword"}
ScanOps == {"Wallets", "Open", "Derive"}

\* the places in the call log of command p of the calls named in ops
CallsTo(p, ops) == {k \in 1..Len(calls[p]) : calls[p][k][1] \in ops}

\* what a call returned: the last component of its entry
Returned(call) == call[Len(call)]

\* the exit error of status 1 with this message
Failure(msg) == [status |-> 1, msg |-> msg]

\* the address --from asks for
Requested(p) == HexToAddress(flags[p].from)

\* wallet w holds address a: a keystore wallet lists it, a hardware wallet
\* has it at one of the fixed paths (Ledger) or among its accounts (Trezor)
Holds(w, a) == \E k \in 1..Len(w.accts) : w.accts[k] = a

\* the locator can find a in w: a keystore lists it, a Ledger derives it
Yields(w, a) == w.scheme \in {"keystore", "ledger"} /\ Holds(w, a)

OrderOf(p) ==
    IF p = "transaction"
    THEN <<"nonce", "value", "gas-price", "gas-limit", "chain-id", "from">>
    ELSE <<"from", "data">>

\* the required flags of p that are empty, by their place in the order
MissingOf(p) ==
    {k \in 1..Len(OrderOf(p)) : CString(flags[p], OrderOf(p)[k]) = Empty}

FirstMissingOf(p) ==
    CHOOSE k \in MissingOf(p) : \A l \in MissingOf(p) : k <= l

\* C1: when a required flag of `transaction' (nonce, value, gas-price,
\* gas-limit, chain-id, from) or of `message' (from, data) is empty, the
\* command makes no library call at all (no wallet enumerated or opened, no
\* passphrase read, no sign call), prints nothing, never gets past the
\* required-flag check, and returns the exit error of status 1 that names the
\* first missing flag in that order.
C1_RequiredFlags ==
    \A p \in Signing :
        (pc[p] # "idle" /\ MissingOf(p) # {}) =>
            /\ pc[p] \in {"requireds", "done"}
            /\ calls[p] = <<>>
            /\ stdout[p] = <<>>
            /\ pc[p] = "done" =>
                  exit[p] = Failure("ethsign: missing required parameter --"
                                      \o OrderOf(p)[FirstMissingOf(p)])

\* a transaction without --value and --from, but with --nonce, was refused
\* for --value
C1_Witness ==
    /\ pc["transaction"] = "done"
    /\ flags["transaction"].nonce # Empty
    /\ flags["transaction"].value = Empty
    /\ flags["transaction"].from = Empty
    /\ exit["transaction"] = Failure("ethsign: missing required parameter --value")

\* C2: in `transaction' with all required flags present: with both or
\* neither of --to and --create the command returns "need exactly one of --to
\* or --create" (status 1); with --create and no --data it returns "need
\* --data when doing --create" (status 1); in these cases no library call is
\* made and nothing is printed.  Otherwise the transaction handed to the
\* signer is a contract creation iff --create is set and else goes to --to.
C2_ToCreate ==
    LET p == "transaction"
        c == flags[p]
        both == (c.to # Empty) /\ c.create
        neither == (c.to = Empty) /\ ~c.create
        nodata == c.create /\ c.to = Empty /\ c.data = Empty
        refused(msg) ==
            /\ pc[p] \in {"requireds", "args", "done"}
            /\ calls[p] = <<>>
            /\ stdout[p] = <<>>
            /\ pc[p] = "done" => exit[p] = Failure(msg)
    IN  (pc[p] # "idle" /\ MissingOf(p) = {}) =>
            /\ (both \/ neither) =>
                  refused("ethsign: need exactly one of --to or --create")
            /\ nodata => refused("ethsign: need --data when doing --create")
            /\ ~(both \/ neither \/ nodata) =>
                  /\ pc[p] = "done" =>
                        exit[p].msg \notin
                           {"ethsign: need exactly one of --to or --create",
                            "ethsign: need --data when doing --create"}
                  /\ \A k \in CallsTo(p, SignOps) :
                        LET tx == calls[p][k][5] IN
                        /\ (tx.to = Nil) <=> c.create
                        /\ ~c.create => tx.to = HexToAddress(c.to)

\* a contract creation was handed to the signer
C2_Witness ==
    /\ flags["transaction"].create
    /\ \E k \in CallsTo("transaction", SignOps) :
          calls["transaction"][k][5].to = Nil

\* the scan of p is over: the loop was left or the command returned
Scanned(p) == pc[p] \in {"acct", "passphrase", "sign", "done"}

LedgerError ==
    "ethsign: Ledger needs to be in Ethereum app with browser support off"

\* C3: whenever some wallet of any of the three backends (keystore, Ledger,
\* Trezor) holds the requested address and no derivation fails, the scan of
\* `transaction' and `message' ends with that account selected.
C3_AllBackends ==
    \A p \in Signing :
        ( /\ Scanned(p)
          /\ \E k \in 1..Len(wallets[p]) : Holds(wallets[p][k], Requested(p))
          /\ \A k \in CallsTo(p, {"Derive"}) : Returned(calls[p][k]) # DeriveErr )
        => /\ acct[p] = Requested(p)
           /\ exit[p].msg # "ethsign: account not found"

Adjusted(sig) == [sig EXCEPT ![65] = (sig[65] + 27) % 256]

\* C5 as stated: for both `transaction' and `message' the printed line is
\* the 0x-hex of the RLP encoding of the signed result.
C5_BothRlp ==
    /\ \A k \in CallsTo("transaction", SignOps) :
          stdout["transaction"] # <<>> =>
             stdout["transaction"][1] =
                HexEncode(RlpTx(Returned(calls["transaction"][k])))
    /\ \A k \in CallsTo("message", SignOps) :
          stdout["message"] # <<>> =>
             \/ stdout["message"][1] =
                   HexEncode(RlpString(Returned(calls["message"][k])))
             \/ stdout["message"][1] =
                   HexEncode(RlpString(Adjusted(Returned(calls["message"][k]))))

\* C5, amended: the line printed by `transaction' is the 0x-hex of the RLP
\* encoding of the signed transaction; the line printed by `message' is the
\* 0x-hex of the 65 bytes of the signature (V adjusted) themselves, without
\* RLP encoding.
C5_TxRlpMsgRaw ==
    /\ \A k \in CallsTo("transaction", SignOps) :
          stdout["transaction"] # <<>> =>
             stdout["transaction"][1] =
                HexEncode(RlpTx(Returned(calls["transaction"][k])))
    /\ \A k \in CallsTo("message", SignOps) :
          stdout["message"] # <<>> =>
             /\ stdout["message"][1] =
                   HexEncode(Adjusted(Returned(calls["message"][k])))
             /\ Len(FromHex(stdout["message"][1])) = 65

\* a message was signed and its line printed
C5_Witness ==
    /\ pc["message"] = "done"
    /\ exit["message"] = NoError
    /\ Len(stdout["message"]) = 1

\* the wallet of p that holds the located account
Located(p) == wallets[p][wallet[p]]

\* C6: a passphrase is read only after the account was located, and only
\* for a keystore account: with --passphrase-file, from that file and never
\* from the terminal, one trailing newline removed, a read failure giving an
\* exit error of status 1 and no sign call; without it, from the terminal.
\* For an account of a hardware wallet nothing is read, whatever
\* --passphrase-file is, and the signer gets the empty passphrase.
C6_Passphrase ==
    \A p \in Signing :
        LET c == flags[p]
            L == calls[p]
            past == pc[p] \in {"sign", "done"}
            signed(pass) == \A s \in CallsTo(p, SignOps) : L[s][4] = pass
        IN
        /\ Cardinality(CallsTo(p, PassOps)) <= 1
        /\ \A k \in CallsTo(p, PassOps) :
              /\ acct[p] = Requested(p)
              /\ wallet[p] \in 1..Len(wallets[p])
              /\ Located(p).scheme = "keystore"
              /\ \A l \in CallsTo(p, ScanOps) : l < k
              /\ \A s \in CallsTo(p, SignOps) : k < s
        /\ (acct[p] # Nil /\ Located(p).scheme = "keystore") =>
              IF c.passphraseFile # Empty
              THEN /\ CallsTo(p, {"ReadPassword"}) = {}
                   /\ past =>
                         \E k \in CallsTo(p, {"ReadFile"}) :
                            /\ L[k][2] = c.passphraseFile
                            /\ ~L[k][3] =>
                                  /\ exit[p] = Failure(
                                        "ethsign: failed to read passphrase file")
                                  /\ CallsTo(p, SignOps) = {}
                            /\ L[k][3] =>
                                  /\ \/ L[k][4] = passphrase[p] \o <<"\n">>
                                     \/ /\ L[k][4] = passphrase[p]
                                        /\ \/ passphrase[p] = Empty
                                           \/ passphrase[p][Len(passphrase[p])] # "\n"
                                  /\ signed(passphrase[p])
              ELSE /\ CallsTo(p, {"ReadFile"}) = {}
                   /\ stderr[p] # <<>> =>
                         stderr[p] = <<"Ethereum account passphrase (not echoed): ">>
                   /\ past =>
                         \E k \in CallsTo(p, {"ReadPassword"}) :
                            /\ ~L[k][2] =>
                                  exit[p].status = 1 /\ CallsTo(p, SignOps) = {}
                            /\ L[k][2] => signed(L[k][3])
        /\ (acct[p] # Nil /\ Located(p).scheme # "keystore") =>
              /\ CallsTo(p, PassOps) = {}
              /\ signed(Empty)

\* a keystore passphrase file ending in two newlines lost one of them
C6_Witness ==
    \E p \in Signing :
        /\ \E k \in CallsTo(p, {"ReadFile"}) : calls[p][k][4] = <<"s", "\n", "\n">>
        /\ \E s \in CallsTo(p, SignOps) : calls[p][s][4] = <<"s", "\n">>

PathNames ==
    <<"m/44'/60'/0'/0", "m/44'/60'/0'/1", "m/44'/60'/0'/2", "m/44'/60'/0'/3">>

\* C7: Ledger wallets are opened in the order of the wallet list; the paths
\* derived on a wallet are m/44'/60'/0'/0, 1, 2, 3 in this order, all four of
\* them when the scan moves on to the next wallet; after a match nothing more
\* is derived, opened or inspected, and the selected account is the first
\* match in (wallet order, path order).
C7_ScanOrder ==
    \A p \in Signing :
        LET L == calls[p]
            req == Requested(p)
        IN
        /\ \A k \in CallsTo(p, {"Open"}) :
              /\ wallets[p][L[k][2]].scheme = "ledger"
              /\ \A l \in CallsTo(p, {"Open", "Derive"}) :
                    l < k => L[l][2] < L[k][2]
              /\ x[p] > L[k][2] =>
                    \A n \in 1..4 :
                       \E l \in CallsTo(p, {"Derive"}) :
                          L[l][2] = L[k][2] /\ L[l][3] = PathNames[n]
        /\ \A k \in CallsTo(p, {"Derive"}) :
              /\ k > 1
              /\ L[k - 1][2] = L[k][2]
              /\ \/ L[k - 1][1] = "Open" /\ L[k][3] = PathNames[1]
                 \/ /\ L[k - 1][1] = "Derive"
                    /\ L[k - 1][5] \notin {DeriveErr, req}
                    /\ \E n \in 1..3 :
                          L[k - 1][3] = PathNames[n] /\ L[k][3] = PathNames[n + 1]
              /\ L[k][5] = req =>
                    /\ wallet[p] = L[k][2]
                    /\ acct[p] = req
                    /\ CallsTo(p, ScanOps) \subseteq 1..k
        /\ acct[p] # Nil =>
              /\ acct[p] = req
              /\ wallet[p] \in 1..Len(wallets[p])
              /\ x[p] = wallet[p]
              /\ Yields(Located(p), req)
              /\ \A w \in 1..(wallet[p] - 1) : ~Yields(wallets[p][w], req)
              /\ \A k \in CallsTo(p, {"Open", "Derive"}) : L[k][2] <= wallet[p]
              /\ Located(p).scheme = "ledger" =>
                    \E k \in CallsTo(p, {"Derive"}) :
                       /\ L[k][2] = wallet[p]
                       /\ L[k][5] = req
                       /\ \A l \in CallsTo(p, {"Derive"}) :
                             (L[l][2] = wallet[p] /\ l # k) => L[l][5] # req

\* a first Ledger was tried on all four paths, the account was found on the
\* third path of a second Ledger
C7_Witness ==
    \E p \in Signing :
        /\ acct[p] = Requested(p)
        /\ wallet[p] = 2
        /\ wallets[p][1].scheme = "ledger"
        /\ wallets[p][2].scheme = "ledger"
        /\ Cardinality(CallsTo(p, {"Derive"})) = 7

\* the places (10 * wallet + entry) where the wallets of p have the requested
\* account within the locator's reach, and where a derivation fails
PlacesOf(p, schemes, a) ==
    UNION {{10 * w + n : n \in {m \in 1..Len(wallets[p][w].accts) :
                                  wallets[p][w].accts[m] = a}} :
             w \in {v \in 1..Len(wallets[p]) : wallets[p][v].scheme \in schemes}}

MatchPlaces(p) == PlacesOf(p, {"keystore", "ledger"}, Requested(p))
FailPlaces(p) == PlacesOf(p, {"ledger"}, DeriveErr)

Min(S) == CHOOSE m \in S : \A n \in S : m <= n

\* the accounts list-accounts has printed once it is at wallet x and has made
\* its Derive calls: those of the keystore wallets before x, and one for each
\* derivation that did not fail
LsPrinted ==
    LET p == "list-accounts" IN
    Cardinality(PlacesOf(p, {"keystore"}, AddrA) \cup PlacesOf(p, {"keystore"}, AddrB))
      - Cardinality({q \in PlacesOf(p, {"keystore"}, AddrA)
                           \cup PlacesOf(p, {"keystore"}, AddrB) : q >= 10 * x[p]})
      + Cardinality({k \in CallsTo(p, {"Derive"}) : Returned(calls[p][k]) # DeriveErr})

\* C8: in `transaction' and `message' a failed derivation ends the command at
\* once with the Ledger exit error (status 1): it is the last call, nothing
\* is read, signed or printed, also when the requested account exists at a
\* later path or in a later wallet; when the first match comes before the
\* first failing path in scan order, that match is selected and there is no
\* Ledger error.  In `list-accounts' a failed derivation ends the command
\* with an exit error of status 1, after the accounts already printed.
C8_DeriveFailure ==
    /\ \A p \in Signing :
          /\ \A k \in CallsTo(p, {"Derive"}) :
                Returned(calls[p][k]) = DeriveErr =>
                   /\ pc[p] = "done"
                   /\ exit[p] = Failure(LedgerError)
                   /\ k = Len(calls[p])
                   /\ CallsTo(p, PassOps \cup SignOps) = {}
                   /\ stdout[p] = <<>>
          /\ ( /\ Scanned(p)
               /\ FailPlaces(p) # {}
               /\ MatchPlaces(p) # {} => Min(FailPlaces(p)) < Min(MatchPlaces(p)) )
             => /\ pc[p] = "done"
                /\ exit[p] = Failure(LedgerError)
                /\ acct[p] = Nil
          /\ ( /\ Scanned(p)
               /\ MatchPlaces(p) # {}
               /\ FailPlaces(p) # {} => Min(MatchPlaces(p)) < Min(FailPlaces(p)) )
             => /\ acct[p] = Requested(p)
                /\ wallet[p] = Min(MatchPlaces(p)) \div 10
                /\ exit[p].msg # LedgerError
    /\ LET p == "list-accounts" IN
       \A k \in CallsTo(p, {"Derive"}) :
          Returned(calls[p][k]) = DeriveErr =>
             /\ pc[p] = "done"
             /\ exit[p] = Failure(
                   "ethsign: couldn't use Ledger: needs to be in Ethereum app with browser support off")
             /\ k = Len(calls[p])
             /\ Len(stdout[p]) = LsPrinted

\* a derivation failed and ended the command although the requested account
\* exists at a later place
C8_Witness ==
    \E p \in Signing :
        /\ exit[p] = Failure(LedgerError)
        /\ MatchPlaces(p) # {}
        /\ Min(FailPlaces(p)) < Min(MatchPlaces(p))

\* C9: the line `message' prints is the signer's 65-byte signature with 27
\* added, modulo 256, to its last byte and every other byte unchanged: V = 0
\* or 1 is printed as 27 or 28, and the last byte printed is 27 or 28.
C9_VAdjusted ==
    LET p == "message" IN
    \A k \in CallsTo(p, SignOps) :
        stdout[p] # <<>> =>
            LET sig == Returned(calls[p][k])
                out == FromHex(stdout[p][1])
            IN  /\ Len(sig) = 65
                /\ Len(out) = 65
                /\ \A n \in 1..64 : out[n] = sig[n]
                /\ out[65] = (sig[65] + 27) % 256
                /\ sig[65] = 0 => out[65] = 27
                /\ sig[65] = 1 => out[65] = 28
                /\ out[65] \in {27, 28}

\* a signature with V = 1 was printed with last byte 28
C9_Witness ==
    LET p == "message" IN
    /\ stdout[p] # <<>>
    /\ \E k \in CallsTo(p, SignOps) : Returned(calls[p][k])[65] = 1
    /\ FromHex(stdout[p][1])[65] = 28

\* C10: on the same wallets, derivation outcomes and --from, the account
\* location of `transaction' and of `message' end alike: the same selected
\* wallet, account and need-passphrase decision (true for a keystore account,
\* false for a Ledger account) or the same exit error, after the same
\* sequence of library calls.
C10_SameLocation ==
    LET t == "transaction"
        m == "message"
    IN  (TxLocated /\ MsgLocated) =>
            /\ wallets[t] = wallets[m]
            /\ pc[t] = pc[m]
            /\ wallet[t] = wallet[m]
            /\ acct[t] = acct[m]
            /\ needPassphrase[t] = needPassphrase[m]
            /\ exit[t] = exit[m]
            /\ calls[t] = calls[m]
            /\ \A p \in {t, m} :
                  acct[p] # Nil =>
                     needPassphrase[p] = (Located(p).scheme = "keystore")

\* both located the account on a Ledger, after a failed look at a keystore
C10_Witness ==
    /\ TxLocated /\ MsgLocated
    /\ acct["message"] = Requested("message")
    /\ ~needPassphrase["message"]
    /\ wallet["message"] = 2
    /\ wallets["message"][1].scheme = "keystore"

==========================================================================
